---- MODULE Spec2Model ----
(***************************************************************************)
(* Model of the exercise-form analysis backend (backend/app/analysis.py    *)
(* and the session endpoints of backend/app/main.py).                      *)
(*                                                                         *)
(* Python dicts are TLA+ functions over string keys; dict.get(k, d) is the *)
(* operator Get.  Python floats that the code compares or rounds are kept  *)
(* as exact rationals (numerator, denominator): every quotient the code    *)
(* forms is of two small integers, so the float comparison agrees with the *)
(* rational one.                                                           *)
(***************************************************************************)
EXTENDS Integers, Sequences, FiniteSets, TLC

VARIABLES
    session,        \* SpecSession: the session document under analysis
    spc,            \* SpecSession: position in the sequence of analysis calls
    summary,        \* result of _analyze_single_session
    weak_areas,     \* result of _identify_weak_areas
    consistency,    \* result of _calculate_consistency
    history,        \* the history window, newest first as the store returns it
    history2,       \* SpecTwoHistories: a second history, for comparison
    now,            \* the clock: datetime.now(timezone.utc)
    trends,         \* result of _calculate_trends(history)
    trends2,        \* result of _calculate_trends(history2)
    comparison,     \* result of _compare_to_history
    recommendations, \* result of _generate_recommendations
    store,          \* Spec: the sessions collection, in natural (insertion) order
    next_id,        \* Spec: the next _id the store assigns
    apc,            \* Spec: position of the analyze_session call in flight
    args,           \* Spec: (session_id, user_id) of the analyze_session call
    fetches,        \* Spec: the store queries the call has issued, in order
    result,         \* Spec: what analyze_session returned
    response,       \* Spec: the last HTTP response of coach_set / delete_session
    snowflake,      \* SpecBackends: the SESSIONS and REP_CHECKS tables
    sf_result       \* SpecBackends: what _analyze_session_snowflake returned

vars == <<session, spc, summary, weak_areas, consistency, history, history2, now,
          trends, trends2, comparison, recommendations,
          store, next_id, apc, args, fetches, result, response, snowflake, sf_result>>

historyVars == <<history, history2, now, trends, trends2, comparison, recommendations>>

storeVars == <<store, next_id, apc, args, fetches, result, response, snowflake, sf_result>>

(***************************************************************************)
(* Bounds of the model.                                                    *)
(***************************************************************************)
MaxReps == 3
MaxHist == 3
MaxInserts == 2

(***************************************************************************)
(* Python helpers.                                                         *)
(***************************************************************************)
EmptyDict == <<>>

Get(d, k, default) == IF k \in DOMAIN d THEN d[k] ELSE default

Range(s) == {s[i] : i \in DOMAIN s}

RECURSIVE SumSeq(_)
SumSeq(s) == IF s = <<>> THEN 0 ELSE Head(s) + SumSeq(Tail(s))

Count(s, v) == Cardinality({i \in DOMAIN s : s[i] = v})

\* round(num / den, 0) for den > 0, ties to even (Python's round)
RoundHalfEven(num, den) ==
    LET q == num \div den
        r == num % den
    IN  IF 2 * r < den THEN q
        ELSE IF 2 * r > den THEN q + 1
        ELSE IF q % 2 = 0 THEN q ELSE q + 1

(***************************************************************************)
(* Severity model.                                                         *)
(***************************************************************************)
CheckNames == <<"depth", "knee_tracking", "torso_angle", "heel_lift", "asymmetry">>

\* severity_weights with high weighted 3
severity_weights_high3 == [low |-> 0, moderate |-> 1, high |-> 3]

severity_weights == [low |-> 0, moderate |-> 1, high |-> 2]

\* self.severity_weights.get(severity, 0)
Weight(severity) == Get(severity_weights, severity, 0)

\* rep.get("checks", {}).get(check_name, {})
CheckOf(rep, check_name) == Get(Get(rep, "checks", EmptyDict), check_name, EmptyDict)

\* check.get("severity", "low") of every rep, in rep order
SeveritiesOf(reps, check_name) ==
    [i \in DOMAIN reps |-> Get(CheckOf(reps[i], check_name), "severity", "low")]

(***************************************************************************)
(* Exact rationals standing for the floats the code compares.              *)
(***************************************************************************)
Rat(n, d) == [num |-> n, den |-> d]

RatLess(a, b) == a.num * b.den < b.num * a.den

\* SortedByScoreDesc with items of equal score in reverse order
SortedByScoreDescTiesReversed(items) ==
    LET n == Len(items)
        before(j, i) == \/ RatLess(items[i].score, items[j].score)
                        \/ (~RatLess(items[j].score, items[i].score) /\ j > i)
        pos(i) == Cardinality({j \in 1..n : before(j, i)}) + 1
    IN  [p \in 1..n |-> items[CHOOSE i \in 1..n : pos(i) = p]]

\* sorted(items, key=lambda x: x.score, reverse=True): descending, stable
SortedByScoreDesc(items) ==
    LET n == Len(items)
        before(j, i) == \/ RatLess(items[i].score, items[j].score)
                        \/ (~RatLess(items[j].score, items[i].score) /\ j < i)
        pos(i) == Cardinality({j \in 1..n : before(j, i)}) + 1
    IN  [p \in 1..n |-> items[CHOOSE i \in 1..n : pos(i) = p]]

\* s[:k]
Take(s, k) == SubSeq(s, 1, IF Len(s) < k THEN Len(s) ELSE k)

(***************************************************************************)
(* _analyze_single_session: per-check ok / watch / flag counts.            *)
(* flag_percentage is kept in tenths of a percent (round(x, 1) * 10).      *)
(***************************************************************************)
CheckSummary(reps, check_name) ==
    LET severities == SeveritiesOf(reps, check_name)
        rep_count  == Len(reps)
        flag_count == Count(severities, "high")
    IN  [ok    |-> Count(severities, "low"),
         watch |-> Count(severities, "moderate"),
         flag  |-> flag_count,
         flag_percentage |-> IF rep_count > 0
                             THEN RoundHalfEven(flag_count * 1000, rep_count)
                             ELSE 0]

AnalyzeSingleSession(sess) ==
    LET reps == Get(sess, "reps", <<>>)
        rep_count == Len(reps)
    IN  IF rep_count = 0
        THEN [rep_count |-> 0, checks_summary |-> EmptyDict]
        ELSE [rep_count |-> rep_count,
              checks_summary |->
                  [c \in Range(CheckNames) |-> CheckSummary(reps, c)]]

(***************************************************************************)
(* _identify_weak_areas.  severity_score is kept in hundredths.            *)
(***************************************************************************)
\* the fixed cue table: every (check, severity) cell of the 5 x 3 matrix
GetCueForCheck(check_name, severity) ==
    IF check_name \in Range(CheckNames) /\ severity \in DOMAIN severity_weights
    THEN [check |-> check_name, severity |-> severity]
    ELSE [check |-> "any", severity |-> "Keep working on this area."]

\* AvgScore with the empty session scored 1 instead of 0
AvgScoreNoReps1(reps, check_name) ==
    LET sev == SeveritiesOf(reps, check_name)
        total_score == SumSeq([i \in DOMAIN sev |-> Weight(sev[i])])
    IN  IF Len(reps) > 0 THEN Rat(total_score, Len(reps)) ELSE Rat(1, 1)

\* total_score / len(reps) if reps else 0
AvgScore(reps, check_name) ==
    LET sev == SeveritiesOf(reps, check_name)
        total_score == SumSeq([i \in DOMAIN sev |-> Weight(sev[i])])
    IN  IF Len(reps) > 0 THEN Rat(total_score, Len(reps)) ELSE Rat(0, 1)

\* WorstRep in which a later rep of equal weight replaces the retained one
RECURSIVE WorstRepLastWins(_, _, _)
WorstRepLastWins(reps, check_name, acc) ==
    IF reps = <<>> THEN acc
    ELSE LET check == CheckOf(Head(reps), check_name)
             sev   == Get(check, "severity", "low")
         IN  WorstRepLastWins(Tail(reps), check_name,
                      IF Weight(sev) >= Weight(acc.worst_severity)
                      THEN [worst_severity |-> sev,
                            evidence |-> Get(check, "evidence", EmptyDict)]
                      ELSE acc)

\* the scan for the worst rep: a later rep replaces the retained one only
\* when its weight is strictly greater
RECURSIVE WorstRep(_, _, _)
WorstRep(reps, check_name, acc) ==
    IF reps = <<>> THEN acc
    ELSE LET check == CheckOf(Head(reps), check_name)
             sev   == Get(check, "severity", "low")
         IN  WorstRep(Tail(reps), check_name,
                      IF Weight(sev) > Weight(acc.worst_severity)
                      THEN [worst_severity |-> sev,
                            evidence |-> Get(check, "evidence", EmptyDict)]
                      ELSE acc)

WeakAreaEntry(reps, item) ==
    LET w == WorstRep(reps, item.check,
                      [worst_severity |-> "low", evidence |-> EmptyDict])
    IN  [check          |-> item.check,
         severity_score |-> RoundHalfEven(item.score.num * 100, item.score.den),
         worst_severity |-> w.worst_severity,
         evidence       |-> w.evidence,
         cue            |-> GetCueForCheck(item.check, w.worst_severity)]

\* ScorePositive with >= in place of >
ScoreNonNegative(score) == score.num >= 0

\* if score > 0
ScorePositive(score) == score.num > 0

IdentifyWeakAreas(sess) ==
    LET reps == Get(sess, "reps", <<>>)
        check_scores == [i \in DOMAIN CheckNames |->
                            [check |-> CheckNames[i],
                             score |-> AvgScore(reps, CheckNames[i])]]
        ranked  == SortedByScoreDesc(check_scores)
        emitted == SelectSeq(ranked, LAMBDA it : ScorePositive(it.score))
    IN  Take([i \in DOMAIN emitted |-> WeakAreaEntry(reps, emitted[i])], 5)

(***************************************************************************)
(* _calculate_consistency.                                                 *)
(* statistics.stdev(scores) = sqrt(m) / d with m = d * (n*sum(x^2) -       *)
(* sum(x)^2) and d = n * (n - 1).  The root is bracketed to five decimal   *)
(* digits: lo <= sqrt(m) * 10^5 <= hi with hi - lo <= 1, and lo = hi       *)
(* exactly when m is a perfect square.  A score that a bracket cannot      *)
(* place on one side of a threshold or a rounding boundary is reported by  *)
(* the field determined.                                                   *)
(***************************************************************************)
\* floor(sqrt(m)), by bisection on [lo, hi)
RECURSIVE ISqrt(_, _, _)
ISqrt(m, lo, hi) ==
    IF hi - lo <= 1 THEN lo
    ELSE LET mid == (lo + hi) \div 2
         IN  IF mid * mid <= m THEN ISqrt(m, mid, hi) ELSE ISqrt(m, lo, mid)

\* j more decimal digits of the root r of m, rem being m * 100^i - r^2
RECURSIVE RootDigits(_, _, _)
RootDigits(r, rem, j) ==
    IF j = 0 THEN [root |-> r, rem |-> rem]
    ELSE LET d == CHOOSE x \in 0..9 :
                      /\ (20 * r + x) * x <= rem * 100
                      /\ (x = 9 \/ (20 * r + x + 1) * (x + 1) > rem * 100)
         IN  RootDigits(10 * r + d, rem * 100 - (20 * r + d) * d, j - 1)

\* stdev(scores) for len(scores) >= 2, in units of 1 / (den * 10^5)
Stdev(scores) ==
    LET n   == Len(scores)
        sx  == SumSeq(scores)
        sxx == SumSeq([i \in DOMAIN scores |-> scores[i] * scores[i]])
        den == n * (n - 1)
        m   == den * (n * sxx - sx * sx)
        r0  == ISqrt(m, 0, m + 1)
        rd  == RootDigits(r0, m - r0 * r0, 5)
    IN  [lo |-> rd.root, hi |-> IF rd.rem = 0 THEN rd.root ELSE rd.root + 1, den |-> den]

\* HasVariance asking for three distinct weights
HasVarianceOver2(scores) == Cardinality(Range(scores)) > 2

\* if len(set(scores)) > 1: the check is recorded in check_variances
HasVariance(scores) == Cardinality(Range(scores)) > 1

\* the threshold table over score = max(0, 1 - avg_variance / 2.5)
Interpretation(score) ==
    IF RatLess(Rat(8, 10), score) THEN "Excellent"
    ELSE IF RatLess(Rat(6, 10), score) THEN "Good"
    ELSE IF RatLess(Rat(4, 10), score) THEN "Fair"
    ELSE "Needs improvement"

\* max(0, 1 - avg_variance / 2.5), avg_variance = sum / (k * den * 10^5)
ScoreOf(sum, k, den) ==
    LET d   == 5 * k * den * 100000
        num == d - 2 * sum
    IN  IF num < 0 THEN Rat(0, 1) ELSE Rat(num, d)

\* round(score, 2) in hundredths
RoundedScore(score) == RoundHalfEven(score.num * 20, score.den \div 5)

CalculateConsistency(sess) ==
    LET reps == Get(sess, "reps", <<>>)
    IN  IF Len(reps) < 2
        THEN [consistency_score |-> 100, interpretation |-> "Insufficient data"]
        ELSE
        LET scores(c) == [i \in DOMAIN reps |->
                              Weight(Get(CheckOf(reps[i], c), "severity", "low"))]
            varied == SelectSeq(CheckNames, LAMBDA c : HasVariance(scores(c)))
            check_variances == [c \in Range(varied) |-> Stdev(scores(c))]
            k     == Len(varied)
            den   == Len(reps) * (Len(reps) - 1)
            sumLo == SumSeq([i \in DOMAIN varied |-> check_variances[varied[i]].lo])
            sumHi == SumSeq([i \in DOMAIN varied |-> check_variances[varied[i]].hi])
            \* the score lies between scoreLo and scoreHi
            scoreLo == IF k = 0 THEN Rat(5, 5) ELSE ScoreOf(sumHi, k, den)
            scoreHi == IF k = 0 THEN Rat(5, 5) ELSE ScoreOf(sumLo, k, den)
        IN  [consistency_score |-> RoundedScore(scoreLo),
             interpretation    |-> Interpretation(scoreLo),
             check_variances   |-> check_variances,
             clamped           |-> k > 0 /\ 5 * k * den * 100000 - 2 * sumLo < 0,
             determined        |-> /\ RoundedScore(scoreLo) = RoundedScore(scoreHi)
                                   /\ Interpretation(scoreLo) = Interpretation(scoreHi)]

(***************************************************************************)
(* _calculate_trends.  Failure rates are percentages kept as rationals;    *)
(* change is kept in tenths of a percentage point (round(x, 1) * 10).      *)
(***************************************************************************)
\* sorted(history, key=lambda x: x.get("timestamp", now)): ascending, stable
SortedByTimestamp(hist, clock) ==
    LET n == Len(hist)
        ts(i) == Get(hist[i], "timestamp", clock)
        before(j, i) == ts(j) < ts(i) \/ (ts(j) = ts(i) /\ j < i)
        pos(i) == Cardinality({j \in 1..n : before(j, i)}) + 1
    IN  [p \in 1..n |-> hist[CHOOSE i \in 1..n : pos(i) = p]]

\* TrendWindow taking the 5 most recent sessions instead of the 5 oldest
TrendWindowNewest(hist, clock) ==
    LET sorted_history == SortedByTimestamp(hist, clock)
        n == Len(sorted_history)
    IN  SubSeq(sorted_history, IF n > 5 THEN n - 4 ELSE 1, n)

\* the sessions the trend math reads: sorted_history[:5]
TrendWindow(hist, clock) == Take(SortedByTimestamp(hist, clock), 5)

\* (failures / len(reps) * 100) if reps else 0
FailureRate(sess, check_name) ==
    LET reps == Get(sess, "reps", <<>>)
        failures == Cardinality({i \in DOMAIN reps :
                        Get(CheckOf(reps[i], check_name), "severity", "None") = "high"})
    IN  IF Len(reps) > 0 THEN Rat(failures * 100, Len(reps)) ELSE Rat(0, 1)

\* round(b - a, 1) in tenths
RoundedDiff(a, b) ==
    RoundHalfEven(10 * (b.num * a.den - a.num * b.den), a.den * b.den)

\* LastPoint reading failure_rates[1] in place of failure_rates[-1]
SecondPoint(points) == points[2]

\* failure_rates[-1], rep_counts[-1]
LastPoint(points) == points[Len(points)]

\* failure_rates[0], rep_counts[0]
FirstPoint(points) == points[1]

\* CheckTrend with the two comparisons exchanged
CheckTrendSwapped(first, last) ==
    [trend  |-> IF RatLess(first, last) THEN "improving"
                ELSE IF RatLess(last, first) THEN "degrading" ELSE "stable",
     change |-> RoundedDiff(first, last)]

\* failure_rates[0] and failure_rates[-1] of the window decide the trend
CheckTrend(first, last) ==
    [trend  |-> IF RatLess(last, first) THEN "improving"
                ELSE IF RatLess(first, last) THEN "degrading" ELSE "stable",
     change |-> RoundedDiff(first, last)]

RepTrend(rep_counts) ==
    LET n == Len(rep_counts)
    IN  IF n > 1 /\ LastPoint(rep_counts) > FirstPoint(rep_counts) THEN "increasing"
        ELSE IF n > 1 /\ LastPoint(rep_counts) < FirstPoint(rep_counts) THEN "decreasing"
        ELSE "stable"

\* InterpretTrends with the rows on the counts alone tested first
InterpretTrendsCountsFirst(check_trends, rep_trend) ==
    LET improving_checks ==
            Cardinality({c \in DOMAIN check_trends : check_trends[c].trend = "improving"})
        degrading_checks ==
            Cardinality({c \in DOMAIN check_trends : check_trends[c].trend = "degrading"})
    IN  IF improving_checks > degrading_checks THEN "improving"
        ELSE IF degrading_checks > improving_checks THEN "declining"
        ELSE IF improving_checks > degrading_checks /\ rep_trend = "increasing" THEN "progress"
        ELSE IF degrading_checks > improving_checks /\ rep_trend = "decreasing" THEN "warning"
        ELSE "stable"

\* _interpret_trends: the five canned interpretations
InterpretTrends(check_trends, rep_trend) ==
    LET improving_checks ==
            Cardinality({c \in DOMAIN check_trends : check_trends[c].trend = "improving"})
        degrading_checks ==
            Cardinality({c \in DOMAIN check_trends : check_trends[c].trend = "degrading"})
    IN  IF improving_checks > degrading_checks /\ rep_trend = "increasing" THEN "progress"
        ELSE IF degrading_checks > improving_checks /\ rep_trend = "decreasing" THEN "warning"
        ELSE IF improving_checks > degrading_checks THEN "improving"
        ELSE IF degrading_checks > improving_checks THEN "declining"
        ELSE "stable"

\* InsufficientHistory with the threshold one too low
InsufficientHistoryBelow1(hist) == Len(hist) < 1

\* if len(history) < 2
InsufficientHistory(hist) == Len(hist) < 2

CalculateTrends(hist, clock) ==
    IF InsufficientHistory(hist)
    THEN [trend |-> "insufficient_data",
          interpretation |-> "Need more sessions to detect trends",
          rep_trend |-> "None"]
    ELSE
    LET window == TrendWindow(hist, clock)
        failure_rates(c) == [i \in DOMAIN window |-> FailureRate(window[i], c)]
        check_failure_trend ==
            [c \in Range(CheckNames) |->
                CheckTrend(FirstPoint(failure_rates(c)), LastPoint(failure_rates(c)))]
        rep_counts == [i \in DOMAIN window |-> Get(window[i], "rep_count", 0)]
        rep_trend  == RepTrend(rep_counts)
    IN  [check_failure_trends |-> check_failure_trend,
         rep_count_trend      |-> rep_trend,
         interpretation       |-> InterpretTrends(check_failure_trend, rep_trend)]

(***************************************************************************)
(* _compare_to_history.  Averages and deltas are kept in tenths.           *)
(***************************************************************************)
\* the number of checks rated high over all reps and all checks of a session
HighCount(sess) ==
    LET reps == Get(sess, "reps", <<>>)
    IN  SumSeq([i \in DOMAIN reps |->
            LET checks == Get(reps[i], "checks", EmptyDict)
            IN  Cardinality({c \in DOMAIN checks :
                                Get(checks[c], "severity", "None") = "high"})])

\* history[1:]
HistoryExcludeCurrent(hist) == Tail(hist)

CompareToHistory(current_session, hist) ==
    IF Len(hist) < 2
    THEN [comparison |-> "insufficient_data"]
    ELSE
    LET rest == HistoryExcludeCurrent(hist)
        n    == Len(rest)
        current_reps  == Get(current_session, "rep_count", 0)
        sum_reps      == SumSeq([i \in DOMAIN rest |-> Get(rest[i], "rep_count", 0)])
        current_flags == HighCount(current_session)
        sum_flags     == SumSeq([i \in DOMAIN rest |-> HighCount(rest[i])])
        \* round(mean(xs), 1) and round(current - mean(xs), 1), mean being 0
        \* when history_exclude_current is empty
        avg(sum)       == IF n = 0 THEN 0 ELSE RoundHalfEven(10 * sum, n)
        delta(x, sum)  == IF n = 0 THEN 10 * x ELSE RoundHalfEven(10 * (x * n - sum), n)
    IN  [rep_count |->
            [current        |-> current_reps,
             historical_avg |-> avg(sum_reps),
             vs_avg         |-> delta(current_reps, sum_reps)],
         critical_issues |->
            [current        |-> current_flags,
             historical_avg |-> avg(sum_flags),
             vs_avg         |-> delta(current_flags, sum_flags)]]

(***************************************************************************)
(* _generate_recommendations.  A message is the rule that emitted it and   *)
(* the check it names ("" when it names none).                             *)
(***************************************************************************)
Msg(rule, check) == [rule |-> rule, check |-> check]

ClosingTip == Msg("record_your_sets", "")

\* the messages of rule (2), in the order of check_failure_trends
DegradingMessages(check_trends) ==
    LET named == SelectSeq(CheckNames, LAMBDA c :
                    /\ c \in DOMAIN check_trends
                    /\ check_trends[c].trend = "degrading"
                    /\ check_trends[c].change > 100)
    IN  [i \in DOMAIN named |-> Msg("stop_degrading", named[i])]

\* LimitRecommendations keeping the last 5 messages instead of the first 5
LimitRecommendationsLast5(recs) ==
    SubSeq(recs, IF Len(recs) > 5 THEN Len(recs) - 4 ELSE 1, Len(recs))

\* recommendations[:5]
LimitRecommendations(recs) == Take(recs, 5)

\* GenericTip emitted whether or not a rule fired
GenericTipAlways(recs) == <<Msg("keep_consistent", "")>>

\* if not recommendations: the generic encouragement
GenericTip(recs) == IF recs = <<>> THEN <<Msg("keep_consistent", "")>> ELSE <<>>

GenerateRecommendations(weak, trend_result) ==
    LET top ==
            IF weak # <<>> /\ weak[1].worst_severity = "high"
                THEN <<Msg("priority_fix", weak[1].check)>>
            ELSE IF weak # <<>> /\ weak[1].worst_severity = "moderate"
                THEN <<Msg("work_on", weak[1].check)>>
            ELSE <<>>
        degrading == DegradingMessages(Get(trend_result, "check_failure_trends", EmptyDict))
        rep_trend == Get(trend_result, "rep_count_trend", "None")
        reps == IF rep_trend = "decreasing" THEN <<Msg("form_over_quantity", "")>>
                ELSE IF rep_trend = "increasing" THEN <<Msg("building_stamina", "")>>
                ELSE <<>>
        rules == top \o degrading \o reps
    IN  LimitRecommendations(rules \o GenericTip(rules) \o <<ClosingTip>>)

(***************************************************************************)
(* Session documents drawn as inputs.  A check is either absent from the   *)
(* rep or carries one of the severities; "severe" stands for any value     *)
(* outside {low, moderate, high}.  The evidence of a check names the rep   *)
(* it was measured on.                                                     *)
(***************************************************************************)
Absent == "absent"

SeverityChoices ==
    [depth         |-> {Absent, "moderate", "high", "severe"},
     knee_tracking |-> {"low", "high"},
     torso_angle   |-> {Absent},
     heel_lift     |-> {Absent},
     asymmetry     |-> {Absent, "moderate"}]

\* the checks mapping of a rep from a choice of severity per check
ChecksOf(choice, rep_index) ==
    [c \in {x \in Range(CheckNames) : choice[x] # Absent} |->
        [severity |-> choice[c], evidence |-> [rep |-> rep_index]]]

RepChoices ==
    {[depth |-> d, knee_tracking |-> k, torso_angle |-> t, heel_lift |-> h, asymmetry |-> a] :
        d \in SeverityChoices.depth, k \in SeverityChoices.knee_tracking,
        t \in SeverityChoices.torso_angle, h \in SeverityChoices.heel_lift,
        a \in SeverityChoices.asymmetry}

\* reps with rep_index 0, 1, ... in order
RepsOf(choices) ==
    [i \in DOMAIN choices |->
        [rep_index |-> i - 1, checks |-> ChecksOf(choices[i], i - 1)]]

(***************************************************************************)
(* SpecSession: the three per-session analyses, applied to a drawn session *)
(* in the order the orchestrator calls them.                               *)
(***************************************************************************)
NotComputed == [computed |-> FALSE]

InitSession ==
    /\ \E n \in 0..MaxReps : \E choices \in [1..n -> RepChoices] :
           session = [session_id |-> "s1", user_id |-> "u1", reps |-> RepsOf(choices)]
    /\ spc = "start"
    /\ summary = NotComputed
    /\ weak_areas = <<>>
    /\ consistency = NotComputed
    /\ history = <<>> /\ history2 = <<>> /\ now = 0
    /\ trends = NotComputed /\ trends2 = NotComputed
    /\ comparison = NotComputed /\ recommendations = <<>>
    /\ store = <<>> /\ next_id = 1 /\ apc = "idle" /\ args = <<>> /\ fetches = <<>>
    /\ result = NotComputed /\ response = NotComputed
    /\ snowflake = NotComputed /\ sf_result = NotComputed

DoAnalyzeSingleSession ==
    /\ spc = "start"
    /\ summary' = AnalyzeSingleSession(session)
    /\ spc' = "summarized"
    /\ UNCHANGED <<session, weak_areas, consistency>>
    /\ UNCHANGED <<historyVars, storeVars>>

DoIdentifyWeakAreas ==
    /\ spc = "summarized"
    /\ weak_areas' = IdentifyWeakAreas(session)
    /\ spc' = "ranked"
    /\ UNCHANGED <<session, summary, consistency>>
    /\ UNCHANGED <<historyVars, storeVars>>

DoCalculateConsistency ==
    /\ spc = "ranked"
    /\ consistency' = CalculateConsistency(session)
    /\ spc' = "measured"
    /\ UNCHANGED <<session, summary, weak_areas>>
    /\ UNCHANGED <<historyVars, storeVars>>

NextSession ==
    \/ DoAnalyzeSingleSession
    \/ DoIdentifyWeakAreas
    \/ DoCalculateConsistency

SpecSession == InitSession /\ [][NextSession]_vars

(***************************************************************************)
(* SpecManyReps: the same three analyses over longer sessions (2 reps and  *)
(* more) whose reps rate depth and knee_tracking low or moderate.          *)
(***************************************************************************)
MaxManyReps == 5

ManyRepChoices ==
    {[depth |-> d, knee_tracking |-> k, torso_angle |-> Absent, heel_lift |-> Absent,
      asymmetry |-> Absent] : d \in {"low", "moderate"}, k \in {"low", "moderate"}}

InitManyReps ==
    /\ \E n \in 2..MaxManyReps : \E choices \in [1..n -> ManyRepChoices] :
           session = [session_id |-> "s1", user_id |-> "u1", reps |-> RepsOf(choices)]
    /\ spc = "start"
    /\ summary = NotComputed
    /\ weak_areas = <<>>
    /\ consistency = NotComputed
    /\ history = <<>> /\ history2 = <<>> /\ now = 0
    /\ trends = NotComputed /\ trends2 = NotComputed
    /\ comparison = NotComputed /\ recommendations = <<>>
    /\ store = <<>> /\ next_id = 1 /\ apc = "idle" /\ args = <<>> /\ fetches = <<>>
    /\ result = NotComputed /\ response = NotComputed
    /\ snowflake = NotComputed /\ sf_result = NotComputed

SpecManyReps == InitManyReps /\ [][NextSession]_vars

(***************************************************************************)
(* Histories drawn as inputs: a session is a list of reps of four kinds    *)
(* and the rep_count the client reported with it (coach_set stores         *)
(* body.rep_count and body.reps as sent, so the two can disagree).         *)
(***************************************************************************)
RepKinds ==
    [good |-> [c \in Range(CheckNames) |-> "low"],
     bad  |-> [c \in Range(CheckNames) |-> "high"],
     deep |-> [c \in Range(CheckNames) |-> IF c = "depth" THEN "high" ELSE Absent],
     knee |-> [c \in Range(CheckNames) |-> IF c = "knee_tracking" THEN "high" ELSE "low"]]

HistoryBodies ==
    {[rep_count |-> 0, kinds |-> <<>>],
     [rep_count |-> 1, kinds |-> <<"bad">>],
     [rep_count |-> 1, kinds |-> <<"deep">>],
     [rep_count |-> 2, kinds |-> <<"knee", "knee">>],
     [rep_count |-> 3, kinds |-> <<"deep", "good", "good">>],
     [rep_count |-> 0, kinds |-> <<"bad">>]}

SessionIds == <<"s1", "s2", "s3", "s4", "s5", "s6", "s7", "s8">>

SessionDoc(id, ts, body) ==
    [session_id |-> id, user_id |-> "u1", timestamp |-> ts,
     rep_count  |-> body.rep_count,
     reps       |-> RepsOf([i \in DOMAIN body.kinds |-> RepKinds[body.kinds[i]]])]

\* timestamps of a newest-first list: the oldest is 1 and each newer session
\* is gaps[i] later than the next older one
RECURSIVE TimestampAt(_, _, _)
TimestampAt(gaps, i, n) ==
    IF i = n THEN 1 ELSE TimestampAt(gaps, i + 1, n) + gaps[i]

\* the history of bodies (newest first), session i being the (n - i + 1)-th
\* session the user recorded
HistoryOf(bodies, gaps) ==
    LET n == Len(bodies)
    IN  [i \in 1..n |->
            SessionDoc(SessionIds[n - i + 1], TimestampAt(gaps, i, n), bodies[i])]

\* a session of the user that the history window does not hold
OutsideSession == SessionDoc("s8", 0, [rep_count |-> 1, kinds |-> <<"deep">>])

(***************************************************************************)
(* SpecHistory: trends, comparison and recommendations over a drawn        *)
(* history and current session, in the order the orchestrator calls them.  *)
(***************************************************************************)
analysisVars == <<spc, summary, consistency, history2, trends2, weak_areas,
                  trends, comparison, recommendations, snowflake, sf_result>>

InitHistory ==
    /\ \E n \in 0..MaxHist : \E bodies \in [1..n -> HistoryBodies] :
       \E gaps \in [1..(n - 1) -> {0, 1}] : \E cur \in 0..n :
           /\ history = HistoryOf(bodies, gaps)
           /\ session = IF cur = 0 THEN OutsideSession ELSE history[cur]
           /\ now = n + 1
    /\ history2 = <<>>
    /\ spc = "start"
    /\ summary = NotComputed
    /\ weak_areas = <<>>
    /\ consistency = NotComputed
    /\ trends = NotComputed /\ trends2 = NotComputed
    /\ comparison = NotComputed /\ recommendations = <<>>
    /\ store = <<>> /\ next_id = 1 /\ apc = "idle" /\ args = <<>> /\ fetches = <<>>
    /\ result = NotComputed /\ response = NotComputed
    /\ snowflake = NotComputed /\ sf_result = NotComputed

DoCalculateTrends ==
    /\ spc = "start"
    /\ trends' = CalculateTrends(history, now)
    /\ spc' = "trended"
    /\ UNCHANGED <<session, summary, weak_areas, consistency, history, history2, now,
                   trends2, comparison, recommendations>>
    /\ UNCHANGED storeVars

DoCompareToHistory ==
    /\ spc = "trended"
    /\ comparison' = CompareToHistory(session, history)
    /\ spc' = "compared"
    /\ UNCHANGED <<session, summary, weak_areas, consistency, history, history2, now,
                   trends, trends2, recommendations>>
    /\ UNCHANGED storeVars

DoGenerateRecommendations ==
    /\ spc = "compared"
    /\ weak_areas' = IdentifyWeakAreas(session)
    /\ recommendations' = GenerateRecommendations(weak_areas', trends)
    /\ spc' = "recommended"
    /\ UNCHANGED <<session, summary, consistency, history, history2, now,
                   trends, trends2, comparison>>
    /\ UNCHANGED storeVars

NextHistory ==
    \/ DoCalculateTrends
    \/ DoCompareToHistory
    \/ DoGenerateRecommendations

SpecHistory == InitHistory /\ [][NextHistory]_vars

(***************************************************************************)
(* SpecTwoHistories: the trend analyzer applied to a history and to a copy *)
(* of it in which one session carries other data.                          *)
(***************************************************************************)
InitTwoHistories ==
    /\ \E n \in 0..MaxHist : \E bodies \in [1..n -> HistoryBodies] :
           /\ history = HistoryOf(bodies, [i \in 1..(n - 1) |-> 1])
           /\ now = n + 1
    /\ history2 = history
    /\ session = OutsideSession
    /\ spc = "start"
    /\ summary = NotComputed
    /\ weak_areas = <<>>
    /\ consistency = NotComputed
    /\ trends = NotComputed /\ trends2 = NotComputed
    /\ comparison = NotComputed /\ recommendations = <<>>
    /\ store = <<>> /\ next_id = 1 /\ apc = "idle" /\ args = <<>> /\ fetches = <<>>
    /\ result = NotComputed /\ response = NotComputed
    /\ snowflake = NotComputed /\ sf_result = NotComputed

\* the data of one session of the second history is replaced
ReplaceSession ==
    /\ spc = "start"
    /\ history2 = history
    /\ \E i \in DOMAIN history : \E body \in HistoryBodies :
           history2' = [history2 EXCEPT
                           ![i] = SessionDoc(@.session_id, @.timestamp, body)]
    /\ UNCHANGED <<session, spc, summary, weak_areas, consistency, history, now,
                   trends, trends2, comparison, recommendations>>
    /\ UNCHANGED storeVars

DoCalculateTrendsBoth ==
    /\ spc = "start"
    /\ trends' = CalculateTrends(history, now)
    /\ trends2' = CalculateTrends(history2, now)
    /\ spc' = "trended"
    /\ UNCHANGED <<session, summary, weak_areas, consistency, history, history2, now,
                   comparison, recommendations>>
    /\ UNCHANGED storeVars

NextTwoHistories ==
    \/ ReplaceSession
    \/ DoCalculateTrendsBoth

SpecTwoHistories == InitTwoHistories /\ [][NextTwoHistories]_vars

(***************************************************************************)
(* SpecLongHistory: the trend analyzer over histories longer than its      *)
(* window (6 sessions and more, of the 10 the history query can return),   *)
(* and over a copy in which one session carries other data.                *)
(***************************************************************************)
MaxLongHist == 7

LongHistoryBodies ==
    {[rep_count |-> 0, kinds |-> <<>>],
     [rep_count |-> 1, kinds |-> <<"bad">>]}

InitLongHistory ==
    /\ \E n \in 6..MaxLongHist : \E bodies \in [1..n -> LongHistoryBodies] :
           /\ history = HistoryOf(bodies, [i \in 1..(n - 1) |-> 1])
           /\ now = n + 1
    /\ history2 = history
    /\ session = history[1]
    /\ spc = "start"
    /\ summary = NotComputed
    /\ weak_areas = <<>>
    /\ consistency = NotComputed
    /\ trends = NotComputed /\ trends2 = NotComputed
    /\ comparison = NotComputed /\ recommendations = <<>>
    /\ store = <<>> /\ next_id = 1 /\ apc = "idle" /\ args = <<>> /\ fetches = <<>>
    /\ result = NotComputed /\ response = NotComputed
    /\ snowflake = NotComputed /\ sf_result = NotComputed

\* the data of one session of the second history is replaced
ReplaceLongSession ==
    /\ spc = "start"
    /\ history2 = history
    /\ \E i \in DOMAIN history : \E body \in LongHistoryBodies :
           history2' = [history2 EXCEPT
                           ![i] = SessionDoc(@.session_id, @.timestamp, body)]
    /\ UNCHANGED <<session, spc, summary, weak_areas, consistency, history, now,
                   trends, trends2, comparison, recommendations>>
    /\ UNCHANGED storeVars

NextLongHistory ==
    \/ ReplaceLongSession
    \/ DoCalculateTrendsBoth

SpecLongHistory == InitLongHistory /\ [][NextLongHistory]_vars

(***************************************************************************)
(* Identities (main.py).  A token is opaque ("tok1") or a three-part JWT   *)
(* whose payload carries sub ("jwt1", sub = "u1").                         *)
(***************************************************************************)
NoHeader == "None"

Tokens == {"tok1", "jwt1"}

\* len(token.split('.')) == 3, doc_user_id.count('.') == 2
ThreeParts(value) == value = "jwt1"

\* extract_user_id: the sub of a JWT, else the raw token
ExtractUserId(token) ==
    IF ~ThreeParts(token) THEN token
    ELSE IF token = "jwt1" THEN "u1" ELSE token

\* resolve_user_id: the X-User-Id header when given, else from the token
ResolveUserId(authorization, user_id_header) ==
    IF user_id_header # NoHeader THEN user_id_header
    ELSE ExtractUserId(authorization.token)

\* authorization and authorization.startswith('Bearer ')
IsBearer(authorization) == authorization.scheme = "Bearer"

AuthHeaders ==
    {[scheme |-> "None", token |-> ""], [scheme |-> "Basic", token |-> "tok1"]}
    \cup {[scheme |-> "Bearer", token |-> t] : t \in Tokens}

UserIdHeaders == {NoHeader, "jwt1", "u1"}

(***************************************************************************)
(* The sessions collection.                                                *)
(***************************************************************************)
HistoryLimit == 10

StoreSessionIds == {"s1", "s2"}

StoreBodies ==
    {[rep_count |-> 1, kinds |-> <<"bad">>],
     [rep_count |-> 2, kinds |-> <<"knee", "knee">>]}

RemoveAt(s, i) == SubSeq(s, 1, i - 1) \o SubSeq(s, i + 1, Len(s))

\* FindOneMatches with the user_id of the filter dropped
FindOneIgnoringUser(st, session_id, user_id) ==
    {i \in DOMAIN st : st[i].session_id = session_id}

\* the documents find_one({"session_id": ..., "user_id": ...}) can return
FindOneMatches(st, session_id, user_id) ==
    {i \in DOMAIN st : st[i].session_id = session_id /\ st[i].user_id = user_id}

\* find({"user_id": ...}).sort("timestamp", -1).limit(10): every order the
\* store may return, documents of equal timestamp being in no fixed order
FindRecent(st, user_id) ==
    LET idx == {i \in DOMAIN st : st[i].user_id = user_id}
        n   == Cardinality(idx)
        orders == {o \in [1..n -> idx] :
                      /\ \A a, b \in 1..n : a # b => o[a] # o[b]
                      /\ \A a \in 1..(n - 1) :
                             st[o[a]].timestamp >= st[o[a + 1]].timestamp}
    IN  {Take([a \in 1..n |-> st[o[a]]], HistoryLimit) : o \in orders}

(***************************************************************************)
(* _analyze_session_mongodb after both fetches: the Analysis Result.       *)
(***************************************************************************)
SessionNotFound == [error |-> "Session not found"]

\* AnalysisFailed carrying a part of a result next to the error
AnalysisFailedPartial == [error |-> "Analysis failed", session_id |-> "s1"]

\* except Exception as e: return {"error": f"Analysis failed: {str(e)}"}
AnalysisFailed == [error |-> "Analysis failed"]

AnalysisResult(session_id, current_session, hist, clock) ==
    LET weak == IdentifyWeakAreas(current_session)
        trend_result == CalculateTrends(hist, clock)
    IN  [session_id      |-> session_id,
         timestamp       |-> Get(current_session, "timestamp", clock),
         rep_count       |-> Get(current_session, "rep_count", 0),
         current_session |-> AnalyzeSingleSession(current_session),
         trends          |-> trend_result,
         weak_areas      |-> weak,
         consistency     |-> CalculateConsistency(current_session),
         comparison      |-> CompareToHistory(current_session, hist),
         recommendations |-> GenerateRecommendations(weak, trend_result)]

(***************************************************************************)
(* Spec: the store, the endpoints that write it, and one analyze_session   *)
(* call at a time, split at its two awaits.                                *)
(***************************************************************************)
Init ==
    /\ store = <<>> /\ next_id = 1 /\ now = 0
    /\ apc = "idle" /\ args = <<>> /\ fetches = <<>>
    /\ result = NotComputed /\ response = NotComputed
    /\ snowflake = NotComputed /\ sf_result = NotComputed
    /\ session = NotComputed /\ history = <<>>
    /\ spc = "start" /\ summary = NotComputed /\ consistency = NotComputed
    /\ history2 = <<>> /\ trends2 = NotComputed /\ weak_areas = <<>>
    /\ trends = NotComputed /\ comparison = NotComputed /\ recommendations = <<>>

\* CoachSetResponse with saved_to_db set as soon as the save is attempted
CoachSetResponseOnAttempt(authorization, inserted) ==
    [op |-> "coach_set", status |-> 200,
     saved_to_db       |-> IsBearer(authorization),
     mongodb_attempted |-> IsBearer(authorization),
     error             |-> IF IsBearer(authorization) /\ ~inserted
                           THEN "insert failed" ELSE "None"]

\* the AssistantOutput returned by coach_set: saved_to_db, and debug_info's
\* mongodb_attempted and error (db_error_msg)
CoachSetResponse(authorization, inserted) ==
    [op |-> "coach_set", status |-> 200,
     saved_to_db       |-> inserted,
     mongodb_attempted |-> IsBearer(authorization),
     error             |-> IF IsBearer(authorization) /\ ~inserted
                           THEN "insert failed" ELSE "None"]

\* POST /api/coach/set, for requests with an Authorization header of auths,
\* an X-User-Id header of headers, and collaborators (the coaching assistant,
\* insert_one) that succeed or raise as outcomes allows
CoachSetWith(auths, headers, outcomes) ==
    \E authorization \in auths, llm_ok \in outcomes, db_ok \in outcomes :
        /\ IF ~llm_ok
           THEN \* get_set_coach_response raised: HTTP 502
                /\ response' = [op |-> "coach_set", status |-> 502, saved_to_db |-> FALSE,
                                mongodb_attempted |-> FALSE, error |-> "None"]
                /\ UNCHANGED <<store, next_id, now>>
           ELSE IF IsBearer(authorization) /\ db_ok
           THEN \E user_id_header \in headers, session_id \in StoreSessionIds,
                   body \in StoreBodies, dt \in {0, 1} :
                    /\ next_id <= MaxInserts
                    /\ now' = now + dt
                    /\ store' = Append(store,
                           [_id |-> next_id,
                            user_id |-> ResolveUserId(authorization, user_id_header)]
                           @@ SessionDoc(session_id, now', body))
                    /\ next_id' = next_id + 1
                    /\ response' = CoachSetResponse(authorization, TRUE)
           ELSE \* no Bearer header, or insert_one raised
                /\ response' = CoachSetResponse(authorization, FALSE)
                /\ UNCHANGED <<store, next_id, now>>
        /\ UNCHANGED <<apc, args, fetches, result, session, history, analysisVars>>

\* LegacyOf without the comparison of the decoded sub to the requester
LegacyOfAnyJwt(doc, user_id) == ThreeParts(doc.user_id)

\* doc_user_id.count('.') == 2 and extract_user_id(doc_user_id) == user_id
LegacyOf(doc, user_id) ==
    /\ ThreeParts(doc.user_id)
    /\ ExtractUserId(doc.user_id) = user_id

\* DirectMatch with the user_id of the filter dropped
DirectMatchAnyUser(doc, session_id, user_id, token) ==
    doc.session_id = session_id

\* the filter {"session_id": session_id, "user_id": {"$in": [user_id, token]}}
DirectMatch(doc, session_id, user_id, token) ==
    /\ doc.session_id = session_id
    /\ doc.user_id \in {user_id, token}

\* {"status": "deleted", "session_id": session_id}, answering the request
\* of user_id with bearer token
DeleteResponse(session_id, user_id, token) ==
    [op |-> "delete_session", status |-> 200, session_id |-> session_id,
     user_id |-> user_id, token |-> token]

\* DELETE /api/history/{session_id}
DeleteSessionWith(auths, headers) ==
    \E authorization \in auths, session_id \in StoreSessionIds :
        /\ IF ~IsBearer(authorization)
           THEN /\ response' = [op |-> "delete_session", status |-> 401]
                /\ UNCHANGED store
           ELSE
           \E user_id_header \in headers :
           LET token   == authorization.token
               user_id == ResolveUserId(authorization, user_id_header)
               direct  == {i \in DOMAIN store :
                              DirectMatch(store[i], session_id, user_id, token)}
               by_id   == {i \in DOMAIN store : store[i].session_id = session_id}
               deleted   == DeleteResponse(session_id, user_id, token)
               not_found == [op |-> "delete_session", status |-> 404]
           IN  IF direct # {}
               THEN \E i \in direct :
                        /\ store' = RemoveAt(store, i)
                        /\ response' = deleted
               ELSE IF by_id = {}
               THEN /\ response' = not_found
                    /\ UNCHANGED store
               ELSE \E i \in by_id :
                        IF LegacyOf(store[i], user_id)
                        THEN /\ store' = RemoveAt(store, i)
                             /\ response' = deleted
                        ELSE /\ response' = not_found
                             /\ UNCHANGED store
        /\ UNCHANGED <<next_id, now, apc, args, fetches, result, session, history,
                       analysisVars>>

\* the requests of Spec: authenticated, without X-User-Id, collaborators up
BearerAuths == {a \in AuthHeaders : IsBearer(a)}

CoachSet == CoachSetWith(BearerAuths, {NoHeader}, {TRUE})

DeleteSession == DeleteSessionWith(BearerAuths, {NoHeader})

AnalyzeUserIds == {"u1", "tok1"}

Fetch(query, ok) == [query |-> query, ok |-> ok]

\* analyze_session up to the end of its first await: find_one
AnalyzeFetchCurrent ==
    \E session_id \in StoreSessionIds, user_id \in AnalyzeUserIds, db_ok \in BOOLEAN :
        /\ apc = "idle"
        /\ args' = <<session_id, user_id>>
        /\ fetches' = <<Fetch("find_one", db_ok)>>
        /\ IF ~db_ok
           THEN /\ result' = AnalysisFailed /\ apc' = "done" /\ UNCHANGED session
           ELSE IF FindOneMatches(store, session_id, user_id) = {}
           THEN /\ result' = SessionNotFound /\ apc' = "done" /\ UNCHANGED session
           ELSE \E i \in FindOneMatches(store, session_id, user_id) :
                    /\ session' = store[i]
                    /\ apc' = "await_history"
                    /\ UNCHANGED result
        /\ UNCHANGED <<store, next_id, now, response, history, analysisVars>>

\* the rest of analyze_session: the history query and the analysis
AnalyzeFetchHistory ==
    \E db_ok \in BOOLEAN :
        /\ apc = "await_history"
        /\ fetches' = Append(fetches, Fetch("find", db_ok))
        /\ apc' = "done"
        /\ IF ~db_ok
           THEN /\ result' = AnalysisFailed /\ UNCHANGED history
           ELSE \E hist \in FindRecent(store, args[2]) :
                    /\ history' = hist
                    /\ result' = AnalysisResult(args[1], session, hist, now)
        /\ UNCHANGED <<store, next_id, now, response, args, session, analysisVars>>

\* the caller takes the result; the analyzer keeps nothing of the call
AnalyzeReturn ==
    /\ apc = "done"
    /\ apc' = "idle" /\ args' = <<>> /\ fetches' = <<>>
    /\ result' = NotComputed /\ session' = NotComputed /\ history' = <<>>
    /\ UNCHANGED <<store, next_id, now, response, analysisVars>>

Next ==
    \/ CoachSet
    \/ DeleteSession
    \/ AnalyzeFetchCurrent
    \/ AnalyzeFetchHistory
    \/ AnalyzeReturn

Spec == Init /\ [][Next]_vars

(***************************************************************************)
(* GET /api/history and SpecEndpoints: the three endpoints under every     *)
(* kind of request (no header, a non-Bearer header, an opaque token, a     *)
(* JWT, with or without X-User-Id), collaborators that may fail, and the   *)
(* analyze call.  A record whose user_id is a raw JWT is a legacy record.  *)
(***************************************************************************)
\* the orders in which sort("timestamp", -1) may return the documents idx
TimestampOrders(st, idx) ==
    LET n == Cardinality(idx)
    IN  {o \in [1..n -> idx] :
            /\ \A a, b \in 1..n : a # b => o[a] # o[b]
            /\ \A a \in 1..(n - 1) : st[o[a]].timestamp >= st[o[a + 1]].timestamp}

\* limit: int = 10, or a limit the client passes
HistoryLimits == {1, HistoryLimit}

SessionResponse(doc, user_id) ==
    [id |-> doc._id, user_id |-> user_id, session_id |-> doc.session_id]

GetUserHistoryWith(auths, headers, limits) ==
    \E authorization \in auths :
        /\ IF ~IsBearer(authorization)
           THEN /\ response' = [op |-> "get_user_history", status |-> 401]
                /\ UNCHANGED store
           ELSE
           \E user_id_header \in headers, limit \in limits :
           LET token   == authorization.token
               user_id == ResolveUserId(authorization, user_id_header)
               own     == {i \in DOMAIN store : store[i].user_id \in {user_id, token}}
           IN  \E po \in TimestampOrders(store, own),
                  lo \in TimestampOrders(store, DOMAIN store \ own) :
               LET primary  == Take(po, limit)
                   scanned  == Take(lo, limit * 3)
                   legacy   == SelectSeq(scanned, LAMBDA i : LegacyOf(store[i], user_id))
                   migrated == IF Len(primary) < limit
                               THEN Take(legacy, limit - Len(primary))
                               ELSE <<>>
               IN  /\ store' = [i \in DOMAIN store |->
                                   IF i \in Range(migrated)
                                   THEN [store[i] EXCEPT !.user_id = user_id]
                                   ELSE store[i]]
                   /\ response' =
                          [op |-> "get_user_history", status |-> 200,
                           user_id |-> user_id,
                           updated |-> {store[i]._id : i \in Range(migrated)},
                           results |->
                               [k \in DOMAIN primary |->
                                   SessionResponse(store[primary[k]],
                                                   store[primary[k]].user_id)]
                               \o [k \in DOMAIN migrated |->
                                   SessionResponse(store[migrated[k]], user_id)]]
        /\ UNCHANGED <<next_id, now, apc, args, fetches, result, session, history,
                       analysisVars>>

CoachSetAny == CoachSetWith(AuthHeaders, UserIdHeaders, BOOLEAN)

GetUserHistory == GetUserHistoryWith(AuthHeaders, UserIdHeaders, HistoryLimits)

DeleteSessionAny == DeleteSessionWith(AuthHeaders, UserIdHeaders)

NextEndpoints ==
    \/ CoachSetAny
    \/ GetUserHistory
    \/ DeleteSessionAny
    \/ AnalyzeFetchCurrent
    \/ AnalyzeFetchHistory
    \/ AnalyzeReturn

SpecEndpoints == Init /\ [][NextEndpoints]_vars

(***************************************************************************)
(* _analyze_session_snowflake.  A table row is a dict with upper-case      *)
(* column names; execute_query returns the rows, or [] when the request    *)
(* fails.                                                                  *)
(***************************************************************************)
\* SnowflakeClient.execute_query
ExecuteQuery(rows, ok) == IF ok THEN rows ELSE <<>>

\* the rows of the same logical session in the two tables
SessionRow(doc) ==
    [SESSION_ID |-> doc.session_id, USER_ID |-> doc.user_id,
     TIMESTAMP  |-> doc.timestamp,  REP_COUNT |-> doc.rep_count]

RepCheckRows(doc) ==
    [i \in DOMAIN doc.reps |->
        [SESSION_ID |-> doc.session_id,
         REP_INDEX  |-> doc.reps[i].rep_index,
         CHECKS     |-> doc.reps[i].checks]]

\* the tables holding the sessions docs (newest first)
TablesOf(docs) ==
    [SESSIONS   |-> [i \in DOMAIN docs |-> SessionRow(docs[i])],
     REP_CHECKS |-> [i \in DOMAIN docs |-> RepCheckRows(docs[i])]]

\* SELECT * FROM REP_CHECKS WHERE SESSION_ID = ... ORDER BY REP_INDEX ASC
RepChecksOf(tables, session_id) ==
    LET hits == {i \in DOMAIN tables.SESSIONS :
                    tables.SESSIONS[i].SESSION_ID = session_id}
    IN  IF hits = {} THEN <<>> ELSE tables.REP_CHECKS[CHOOSE i \in hits : TRUE]

\* session["reps"] = rows; session["rep_count"] = len(rows)
WithReps(row, rows) == [reps |-> rows, rep_count |-> Len(rows)] @@ row

AnalyzeSessionSnowflake(tables, session_id, user_id, clock, ok) ==
    LET current_session_results ==
            ExecuteQuery(SelectSeq(tables.SESSIONS, LAMBDA r :
                r.SESSION_ID = session_id /\ r.USER_ID = user_id), ok.current)
    IN  IF current_session_results = <<>> THEN SessionNotFound
        ELSE
        LET \* ORDER BY TIMESTAMP DESC LIMIT 10: the table is kept newest first
            history_results ==
                ExecuteQuery(Take(SelectSeq(tables.SESSIONS, LAMBDA r :
                    r.USER_ID = user_id), HistoryLimit), ok.history)
            current_session ==
                WithReps(current_session_results[1],
                         ExecuteQuery(RepChecksOf(tables, session_id), ok.reps))
            hist == [i \in DOMAIN history_results |->
                        WithReps(history_results[i],
                                 ExecuteQuery(RepChecksOf(tables,
                                     Get(history_results[i], "SESSION_ID", "None")),
                                     ok.reps))]
        IN  AnalysisResult(session_id, current_session, hist, clock)
            @@ [data_source |-> "snowflake"]

(***************************************************************************)
(* SpecBackends: one user's sessions held by both stores, and the same     *)
(* session analysed through each backend.                                  *)
(***************************************************************************)
AllOk == [current |-> TRUE, history |-> TRUE, reps |-> TRUE]

InitBackends ==
    /\ \E n \in 1..MaxHist : \E bodies \in [1..n -> HistoryBodies] : \E cur \in 1..n :
           /\ store = HistoryOf(bodies, [i \in 1..(n - 1) |-> 1])
           /\ args = <<store[cur].session_id, "u1">>
           /\ now = n + 1
    /\ snowflake = TablesOf(store)
    /\ sf_result = NotComputed
    /\ next_id = 1 /\ apc = "idle" /\ fetches = <<>>
    /\ result = NotComputed /\ response = NotComputed
    /\ session = NotComputed /\ history = <<>>
    /\ spc = "start" /\ summary = NotComputed /\ consistency = NotComputed
    /\ history2 = <<>> /\ trends2 = NotComputed /\ weak_areas = <<>>
    /\ trends = NotComputed /\ comparison = NotComputed /\ recommendations = <<>>

\* analyze_session with USE_SNOWFLAKE unset, its two fetches back to back
DoAnalyzeMongodb ==
    /\ apc = "idle"
    /\ \E i \in FindOneMatches(store, args[1], args[2]) :
       \E hist \in FindRecent(store, args[2]) :
           /\ session' = store[i]
           /\ history' = hist
           /\ result' = AnalysisResult(args[1], store[i], hist, now)
    /\ fetches' = <<Fetch("find_one", TRUE), Fetch("find", TRUE)>>
    /\ apc' = "mongodb_done"
    /\ UNCHANGED <<store, next_id, now, response, args, spc, summary, consistency,
                   history2, trends2, weak_areas, trends, comparison, recommendations,
                   snowflake, sf_result>>

\* analyze_session with USE_SNOWFLAKE=true
DoAnalyzeSnowflake ==
    /\ apc = "mongodb_done"
    /\ sf_result' = AnalyzeSessionSnowflake(snowflake, args[1], args[2], now, AllOk)
    /\ apc' = "done"
    /\ UNCHANGED <<store, next_id, now, response, args, fetches, result, session,
                   history, spc, summary, consistency, history2, trends2, weak_areas,
                   trends, comparison, recommendations, snowflake>>

NextBackends ==
    \/ DoAnalyzeMongodb
    \/ DoAnalyzeSnowflake

SpecBackends == InitBackends /\ [][NextBackends]_vars

(***************************************************************************)
(* SpecSnowflake: analyze_session with USE_SNOWFLAKE=true over tables      *)
(* whose statements succeed or fail (exception, timeout, non-200           *)
(* response): execute_query answers a failed statement with [].            *)
(***************************************************************************)
QueryOutcomes == [current : BOOLEAN, history : BOOLEAN, reps : BOOLEAN]

\* the statements a call submits, in order, with their outcomes
SnowflakeFetches(tables, session_id, user_id, ok) ==
    LET found == SelectSeq(tables.SESSIONS, LAMBDA r :
                     r.SESSION_ID = session_id /\ r.USER_ID = user_id)
    IN  IF ExecuteQuery(found, ok.current) = <<>>
        THEN <<Fetch("current", ok.current)>>
        ELSE <<Fetch("current", ok.current), Fetch("history", ok.history),
               Fetch("reps", ok.reps)>>

InitSnowflake ==
    /\ InitBackends

DoAnalyzeSnowflakeWith(outcomes) ==
    \E ok \in outcomes :
        /\ apc = "idle"
        /\ sf_result' = AnalyzeSessionSnowflake(snowflake, args[1], args[2], now, ok)
        /\ fetches' = SnowflakeFetches(snowflake, args[1], args[2], ok)
        /\ apc' = "done"
        /\ UNCHANGED <<store, next_id, now, response, args, result, session,
                       history, spc, summary, consistency, history2, trends2,
                       weak_areas, trends, comparison, recommendations, snowflake>>

DoAnalyzeSnowflakeAnyOutcome == DoAnalyzeSnowflakeWith(QueryOutcomes)

NextSnowflake == DoAnalyzeSnowflakeAnyOutcome

SpecSnowflake == InitSnowflake /\ [][NextSnowflake]_vars

(***************************************************************************)
(* SpecConcurrent: analyze_session calls for different sessions running    *)
(* on the one analyzer instance over a store that does not change.  Each   *)
(* call is a coroutine that may be suspended at its two awaits (find_one   *)
(* and the history query); every variable is a function of the call, and   *)
(* fetches logs the calls in the order their fetches reached the store.    *)
(***************************************************************************)
MaxCalls == 2

Calls == 1..MaxCalls

CallSessionIds == {"s1", "s2", "s9"}

\* SessionSlot with the fetched documents kept on the shared instance
SessionSlotShared(c) == 1

\* where call c keeps current_session and history: locals of its own frame
SessionSlot(c) == c

InitConcurrent ==
    /\ \E n \in 2..MaxHist : \E bodies \in [1..n -> HistoryBodies] :
           /\ store = HistoryOf(bodies, [i \in 1..(n - 1) |-> 1])
           /\ now = n + 1
    /\ args \in {a \in [Calls -> CallSessionIds \X {"u1"}] :
                    \A c, d \in Calls : c # d => a[c][1] # a[d][1]}
    /\ apc = [c \in Calls |-> "idle"]
    /\ session = [c \in Calls |-> NotComputed]
    /\ history = [c \in Calls |-> <<>>]
    /\ result = [c \in Calls |-> NotComputed]
    /\ fetches = <<>>
    /\ next_id = 1 /\ response = NotComputed
    /\ snowflake = NotComputed /\ sf_result = NotComputed
    /\ spc = "start" /\ summary = NotComputed /\ consistency = NotComputed
    /\ history2 = <<>> /\ trends2 = NotComputed /\ weak_areas = <<>>
    /\ trends = NotComputed /\ comparison = NotComputed /\ recommendations = <<>>

\* call c up to the end of its first await: find_one
CallFetchCurrent(c) ==
    /\ apc[c] = "idle"
    /\ fetches' = Append(fetches, c)
    /\ IF FindOneMatches(store, args[c][1], args[c][2]) = {}
       THEN /\ result' = [result EXCEPT ![c] = SessionNotFound]
            /\ apc' = [apc EXCEPT ![c] = "done"]
            /\ UNCHANGED session
       ELSE \E i \in FindOneMatches(store, args[c][1], args[c][2]) :
                /\ session' = [session EXCEPT ![SessionSlot(c)] = store[i]]
                /\ apc' = [apc EXCEPT ![c] = "await_history"]
                /\ UNCHANGED result
    /\ UNCHANGED <<store, next_id, now, response, args, history, analysisVars>>

\* the rest of call c: the history query and the analysis
CallFetchHistory(c) ==
    /\ apc[c] = "await_history"
    /\ fetches' = Append(fetches, c)
    /\ apc' = [apc EXCEPT ![c] = "done"]
    /\ \E hist \in FindRecent(store, args[c][2]) :
           /\ history' = [history EXCEPT ![SessionSlot(c)] = hist]
           /\ result' = [result EXCEPT ![c] =
                             AnalysisResult(args[c][1], session[SessionSlot(c)],
                                            hist, now)]
    /\ UNCHANGED <<store, next_id, now, response, args, session, analysisVars>>

NextConcurrent ==
    \E c \in Calls :
        \/ CallFetchCurrent(c)
        \/ CallFetchHistory(c)

SpecConcurrent == InitConcurrent /\ [][NextConcurrent]_vars

(***************************************************************************)
(* _get_safe and SpecGetSafe.  A value is None, a scalar or a dict; a dict *)
(* holds a field under any of its spellings "Reps", "REPS" and "reps".  A  *)
(* scalar stored under a spelling is tagged with it (1, 2, 3), so the      *)
(* value returned tells which spelling was read.                           *)
(***************************************************************************)
NoneValue == [kind |-> "none", items |-> <<>>, v |-> 0]

Scalar(x) == [kind |-> "scalar", items |-> <<>>, v |-> x]

Dict(f) == [kind |-> "dict", items |-> f, v |-> 0]

Spellings == {"Reps", "REPS", "reps"}

\* key.upper()
Upper(key) ==
    IF key \in Spellings THEN "REPS"
    ELSE IF key \in {"Name", "NAME", "name"} THEN "NAME" ELSE key

\* key.lower()
Lower(key) ==
    IF key \in Spellings THEN "reps"
    ELSE IF key \in {"Name", "NAME", "name"} THEN "name" ELSE key

Missing == "missing"

\* StepKey trying the lowercase form before the uppercase form
StepKeyLowerFirst(items, key) ==
    IF key \in DOMAIN items THEN key
    ELSE IF Lower(key) \in DOMAIN items THEN Lower(key)
    ELSE IF Upper(key) \in DOMAIN items THEN Upper(key)
    ELSE Missing

\* the spelling one step reads: key, else key.upper(), else key.lower()
StepKey(items, key) ==
    IF key \in DOMAIN items THEN key
    ELSE IF Upper(key) \in DOMAIN items THEN Upper(key)
    ELSE IF Lower(key) \in DOMAIN items THEN Lower(key)
    ELSE Missing

RECURSIVE GetSafe(_, _, _)
GetSafe(current, keys, default) ==
    IF keys = <<>>
    THEN IF current.kind # "none" THEN current ELSE default
    ELSE IF current.kind # "dict" THEN default
    ELSE LET k == StepKey(current.items, Head(keys))
         IN  IF k = Missing THEN default
             ELSE GetSafe(current.items[k], Tail(keys), default)

MaxPath == 2

PathKeys == {"Reps", "REPS", "reps", "Name"}

SpellingTag == [Reps |-> 1, REPS |-> 2, reps |-> 3]

InnerDict(fields) == Dict([k \in fields |-> Scalar(SpellingTag[k])])

ValueKinds == {"scalar", "none", "lower", "both", "all"}

ValueOf(kind, k) ==
    IF kind = "scalar" THEN Scalar(SpellingTag[k])
    ELSE IF kind = "none" THEN NoneValue
    ELSE IF kind = "lower" THEN InnerDict({"reps"})
    ELSE IF kind = "both" THEN InnerDict({"REPS", "reps"})
    ELSE InnerDict(Spellings)

Records ==
    {Scalar(0), NoneValue}
    \cup UNION {{Dict([k \in fields |-> ValueOf(kinds[k], k)]) :
                    kinds \in [fields -> ValueKinds]} : fields \in SUBSET Spellings}

Default == Scalar(99)

InitGetSafe ==
    /\ session \in Records
    /\ \E n \in 0..MaxPath : args \in [1..n -> PathKeys]
    /\ result = NotComputed
    /\ spc = "start"
    /\ summary = NotComputed
    /\ weak_areas = <<>>
    /\ consistency = NotComputed
    /\ history = <<>> /\ history2 = <<>> /\ now = 0
    /\ trends = NotComputed /\ trends2 = NotComputed
    /\ comparison = NotComputed /\ recommendations = <<>>
    /\ store = <<>> /\ next_id = 1 /\ apc = "idle" /\ fetches = <<>>
    /\ response = NotComputed
    /\ snowflake = NotComputed /\ sf_result = NotComputed

DoGetSafe ==
    /\ spc = "start"
    /\ result' = GetSafe(session, args, Default)
    /\ spc' = "resolved"
    /\ UNCHANGED <<session, args, summary, weak_areas, consistency, history, history2,
                   now, trends, trends2, comparison, recommendations, store, next_id,
                   apc, fetches, response, snowflake, sf_result>>

NextGetSafe == DoGetSafe

SpecGetSafe == InitGetSafe /\ [][NextGetSafe]_vars

(***************************************************************************)
(* Properties of the per-session analyses (SpecSession).                   *)
(***************************************************************************)
SessionReps == Get(session, "reps", <<>>)

\* the severity a rep carries for a check, Absent when the check is missing
CarriedSeverity(rep, c) ==
    IF "checks" \in DOMAIN rep /\ c \in DOMAIN rep.checks
    THEN rep.checks[c].severity ELSE Absent

\* the bracket of every computed consistency score decides its rounding and
\* its interpretation
ConsistencyDetermined ==
    (spc = "measured" /\ Len(SessionReps) >= 2) => consistency.determined

\* C2: for every session with at least one rep and each canonical check,
\* ok + watch + flag equals the number of reps, also when a rep omits the
\* check or carries a severity outside {low, moderate, high}.
C2_CountsSumToRepCount ==
    (spc # "start" /\ Len(SessionReps) >= 1) =>
        \A c \in Range(CheckNames) :
            LET cs == summary.checks_summary[c]
            IN  cs.ok + cs.watch + cs.flag = Len(SessionReps)

\* C3: a session without reps yields no weak areas, the "Insufficient data"
\* consistency placeholder with score 1.0, and an empty checks_summary.
C3_EmptySession ==
    (spc = "measured" /\ Len(SessionReps) = 0) =>
        /\ weak_areas = <<>>
        /\ consistency = [consistency_score |-> 100,
                          interpretation |-> "Insufficient data"]
        /\ summary = [rep_count |-> 0, checks_summary |-> EmptyDict]

C3_Witness == spc = "measured" /\ Len(SessionReps) = 0

\* C4: the weak-area list has at most 5 entries, names each check at most
\* once, and holds a check exactly when some rep rates it moderate or high
\* (its mean severity weight is above 0).
C4_WeakAreasExactlyPositive ==
    spc \in {"ranked", "measured"} =>
        /\ Len(weak_areas) <= 5
        /\ \A i, j \in DOMAIN weak_areas :
               weak_areas[i].check = weak_areas[j].check => i = j
        /\ \A c \in Range(CheckNames) :
               (\E i \in DOMAIN weak_areas : weak_areas[i].check = c)
               <=> (\E r \in DOMAIN SessionReps :
                        CarriedSeverity(SessionReps[r], c) \in {"moderate", "high"})

C4_Witness ==
    /\ spc = "ranked"
    /\ Len(weak_areas) = 2
    /\ \E r \in DOMAIN SessionReps : CarriedSeverity(SessionReps[r], "depth") = "severe"
    /\ \A r \in DOMAIN SessionReps : CarriedSeverity(SessionReps[r], "depth") # "high"
    /\ \A r \in DOMAIN SessionReps : CarriedSeverity(SessionReps[r], "depth") # "moderate"

\* C24: for a session of 2 or more reps the returned interpretation is the
\* one the threshold table gives for the returned consistency_score:
\* Excellent above 0.8, Good above 0.6, Fair above 0.4, else Needs
\* improvement.
C24_InterpretationMatchesScore ==
    (spc = "measured" /\ Len(SessionReps) >= 2) =>
        LET score == consistency.consistency_score
            said  == consistency.interpretation
        IN  /\ said = "Excellent" <=> score > 80
            /\ said = "Good" <=> (score > 60 /\ score <= 80)
            /\ said = "Fair" <=> (score > 40 /\ score <= 60)
            /\ said = "Needs improvement" <=> score <= 40

\* C30: with weights in {0, 1, 2} the consistency score of a session of 2
\* or more reps stays above 0.4: "Needs improvement" is never returned and
\* the clamp at 0 never takes effect.
C30_ScoreAboveNeedsImprovement ==
    (spc = "measured" /\ Len(SessionReps) >= 2) =>
        /\ consistency.consistency_score > 40
        /\ consistency.interpretation # "Needs improvement"
        /\ ~consistency.clamped

C30_Witness ==
    /\ spc = "measured"
    /\ Len(SessionReps) = 2
    /\ CarriedSeverity(SessionReps[1], "depth") = "high"
    /\ CarriedSeverity(SessionReps[2], "depth") = Absent
    /\ CarriedSeverity(SessionReps[1], "knee_tracking") = "low"
    /\ CarriedSeverity(SessionReps[2], "knee_tracking") = "high"
    /\ consistency.consistency_score = 43
    /\ consistency.interpretation = "Fair"

\* the summed severity weight of a check over the reps of the session (the
\* mean score times the number of reps)
TotalWeight(c) ==
    SumSeq([r \in DOMAIN SessionReps |-> Weight(CarriedSeverity(SessionReps[r], c))])

CanonicalIndex(c) == CHOOSE i \in DOMAIN CheckNames : CheckNames[i] = c

\* C17: the weak-area list is in non-increasing order of mean score, checks
\* of equal mean score are in canonical order, and its first entry is the
\* first canonical check attaining the maximum mean score.
C17_StableDescendingOrder ==
    spc \in {"ranked", "measured"} =>
        /\ \A i, j \in DOMAIN weak_areas :
               i < j =>
                   /\ TotalWeight(weak_areas[i].check) >= TotalWeight(weak_areas[j].check)
                   /\ TotalWeight(weak_areas[i].check) = TotalWeight(weak_areas[j].check)
                          => CanonicalIndex(weak_areas[i].check)
                                 < CanonicalIndex(weak_areas[j].check)
        /\ weak_areas # <<>> =>
               \A c \in Range(CheckNames) :
                   /\ TotalWeight(c) <= TotalWeight(weak_areas[1].check)
                   /\ TotalWeight(c) = TotalWeight(weak_areas[1].check)
                          => CanonicalIndex(weak_areas[1].check) <= CanonicalIndex(c)

C17_Witness ==
    /\ spc = "ranked"
    /\ Len(weak_areas) = 3
    /\ weak_areas[1].check = "knee_tracking"
    /\ weak_areas[2].check = "depth"
    /\ weak_areas[3].check = "asymmetry"
    /\ weak_areas[2].severity_score = weak_areas[3].severity_score

\* the first rep, in rep order, whose severity for check c has the greatest
\* weight any rep has for c
FirstWorstRep(c) ==
    LET w(r) == Weight(CarriedSeverity(SessionReps[r], c))
        worst == {r \in DOMAIN SessionReps : \A q \in DOMAIN SessionReps : w(q) <= w(r)}
    IN  CHOOSE r \in worst : \A q \in worst : r <= q

\* C18: every emitted weak area reports as worst_severity the highest
\* severity any rep has for the check, and as evidence the evidence of the
\* first rep, in rep order, that has that severity.
C18_WorstRepFirstOccurrence ==
    spc \in {"ranked", "measured"} =>
        \A i \in DOMAIN weak_areas :
            LET c == weak_areas[i].check
                rep == SessionReps[FirstWorstRep(c)]
            IN  /\ weak_areas[i].worst_severity = CarriedSeverity(rep, c)
                /\ weak_areas[i].worst_severity \in {"moderate", "high"}
                /\ weak_areas[i].evidence = rep.checks[c].evidence

C18_Witness ==
    /\ spc = "ranked"
    /\ Len(SessionReps) = 3
    /\ CarriedSeverity(SessionReps[1], "depth") = "moderate"
    /\ CarriedSeverity(SessionReps[2], "depth") = "high"
    /\ CarriedSeverity(SessionReps[3], "depth") = "high"
    /\ \E i \in DOMAIN weak_areas :
           /\ weak_areas[i].check = "depth"
           /\ weak_areas[i].worst_severity = "high"
           /\ weak_areas[i].evidence = SessionReps[2].checks["depth"].evidence

HighRate(sess, c) ==
    LET n == Len(sess.reps)
        k == Cardinality({r \in DOMAIN sess.reps :
                              CarriedSeverity(sess.reps[r], c) = "high"})
    IN  IF n = 0 THEN Rat(0, 1) ELSE Rat(100 * k, n)

WindowFirst(h) == TrendWindow(h, now)[1]
WindowLast(h)  == TrendWindow(h, now)[Len(TrendWindow(h, now))]

\* C1: the returned recommendation list contains the closing "record your
\* sets" tip, whatever weak areas and trends were passed.
C1_ClosingTipPresent ==
    spc = "recommended" =>
        \E i \in DOMAIN recommendations : recommendations[i] = ClosingTip

\* the messages of the rule cascade before the cap, in rule order: the
\* weak-area message, the degrading messages in canonical check order, the
\* rep-trend message, the generic tip when nothing else fired, the closing tip
Cascade ==
    LET top == IF weak_areas = <<>> THEN <<>>
               ELSE IF weak_areas[1].worst_severity = "high"
                    THEN <<[rule |-> "priority_fix", check |-> weak_areas[1].check]>>
               ELSE IF weak_areas[1].worst_severity = "moderate"
                    THEN <<[rule |-> "work_on", check |-> weak_areas[1].check]>>
               ELSE <<>>
        check_trends == Get(trends, "check_failure_trends", EmptyDict)
        degrading == SelectSeq(CheckNames, LAMBDA c :
                        /\ c \in DOMAIN check_trends
                        /\ check_trends[c].trend = "degrading"
                        /\ check_trends[c].change > 100)
        rep_trend == Get(trends, "rep_count_trend", "None")
        reps == IF rep_trend = "decreasing"
                    THEN <<[rule |-> "form_over_quantity", check |-> ""]>>
                ELSE IF rep_trend = "increasing"
                    THEN <<[rule |-> "building_stamina", check |-> ""]>>
                ELSE <<>>
        fired == top \o [i \in DOMAIN degrading |->
                            [rule |-> "stop_degrading", check |-> degrading[i]]] \o reps
    IN  fired \o (IF fired = <<>> THEN <<[rule |-> "keep_consistent", check |-> ""]>>
                  ELSE <<>>)
              \o <<[rule |-> "record_your_sets", check |-> ""]>>

\* C16: the recommendation list has between 1 and 5 entries, and when the
\* cascade produces more than 5 messages the list is exactly its first 5.
C16_FirstFiveInRuleOrder ==
    spc = "recommended" =>
        /\ Len(recommendations) >= 1
        /\ Len(recommendations) <= 5
        /\ Len(Cascade) > 5 => recommendations = SubSeq(Cascade, 1, 5)
        /\ Len(Cascade) <= 5 => recommendations = Cascade

C16_Witness ==
    /\ spc = "recommended"
    /\ Len(Cascade) > 5
    /\ Len(recommendations) = 5
    /\ recommendations[1].rule = "priority_fix"
    /\ recommendations[5].rule = "stop_degrading"

\* C21: the generic encouragement is in the list exactly when there is no
\* weak area, no check degrading by more than 10 points and the rep trend
\* is neither increasing nor decreasing; the list is then exactly the
\* generic encouragement followed by the closing tip.
C21_GenericIffNoRuleFired ==
    spc = "recommended" =>
        LET check_trends == Get(trends, "check_failure_trends", EmptyDict)
            quiet == /\ weak_areas = <<>>
                     /\ \A c \in DOMAIN check_trends :
                            ~(check_trends[c].trend = "degrading"
                              /\ check_trends[c].change > 100)
                     /\ Get(trends, "rep_count_trend", "None")
                            \notin {"increasing", "decreasing"}
            generic == [rule |-> "keep_consistent", check |-> ""]
        IN  /\ (\E i \in DOMAIN recommendations : recommendations[i] = generic) <=> quiet
            /\ quiet => recommendations
                            = <<generic, [rule |-> "record_your_sets", check |-> ""]>>

C21_Witness ==
    /\ spc = "recommended"
    /\ Len(history) >= 2
    /\ weak_areas = <<>>
    /\ Get(trends, "rep_count_trend", "None") = "stable"
    /\ \E c \in DOMAIN Get(trends, "check_failure_trends", EmptyDict) :
           trends.check_failure_trends[c].trend = "improving"
    /\ recommendations[1].rule = "keep_consistent"

\* the number of checks whose trend is t
TrendCount(t) ==
    LET check_trends == Get(trends, "check_failure_trends", EmptyDict)
    IN  Cardinality({c \in DOMAIN check_trends : check_trends[c].trend = t})

\* C22: the interpretation of a computed trend follows the decision table
\* over the number of improving checks, the number of degrading checks and
\* the rep trend.
C22_InterpretationTable ==
    (spc # "start" /\ Len(history) >= 2) =>
        LET up   == TrendCount("improving")
            down == TrendCount("degrading")
            rep_trend == Get(trends, "rep_count_trend", "None")
            said == Get(trends, "interpretation", "None")
        IN  /\ said = "progress"  <=> (up > down /\ rep_trend = "increasing")
            /\ said = "warning"   <=> (down > up /\ rep_trend = "decreasing")
            /\ said = "improving" <=> (up > down /\ rep_trend # "increasing")
            /\ said = "declining" <=> (down > up /\ rep_trend # "decreasing")
            /\ said = "stable"    <=> up = down

C22_Witness ==
    /\ spc = "trended"
    /\ Len(history) >= 2
    /\ TrendCount("degrading") > TrendCount("improving")
    /\ TrendCount("stable") >= 1
    /\ trends.rep_count_trend = "decreasing"
    /\ trends.interpretation = "warning"

\* C6: two histories of the same length (>= 2) whose sorted windows have the
\* same first and the same last session get identical per-check trends,
\* changes and rep_count_trend.
C6_InteriorIgnored ==
    (/\ spc = "trended"
     /\ Len(history) >= 2
     /\ Len(history2) = Len(history)
     /\ WindowFirst(history2) = WindowFirst(history)
     /\ WindowLast(history2) = WindowLast(history))
    => /\ trends2.check_failure_trends = trends.check_failure_trends
       /\ trends2.rep_count_trend = trends.rep_count_trend

C6_Witness ==
    /\ spc = "trended"
    /\ Len(history) >= 3
    /\ WindowFirst(history2) = WindowFirst(history)
    /\ WindowLast(history2) = WindowLast(history)
    /\ \E i \in DOMAIN history :
           /\ history2[i].rep_count # history[i].rep_count
           /\ HighRate(history2[i], "depth") # HighRate(history[i], "depth")
    /\ trends.check_failure_trends["depth"].trend = "degrading"

\* the positions, in the newest-first history h, of its 5 sessions with the
\* oldest timestamps
FiveOldest(h) ==
    {i \in DOMAIN h :
        Cardinality({j \in DOMAIN h : h[j].timestamp < h[i].timestamp}) < 5}

C7_ChangeIsExactDifference ==
    (spc # "start" /\ Len(history) >= 2) =>
        \A c \in Range(CheckNames) :
            LET first == HighRate(WindowFirst(history), c)
                last  == HighRate(WindowLast(history), c)
                t     == trends.check_failure_trends[c]
            IN  /\ t.trend = "improving" <=> RatLess(last, first)
                /\ t.trend = "degrading" <=> RatLess(first, last)
                /\ t.trend = "stable" <=> (~RatLess(last, first) /\ ~RatLess(first, last))
                /\ t.change * (first.den * last.den)
                       = 10 * (last.num * first.den - first.num * last.den)

\* C7 as amended: the classification as stated, and change is last - first
\* rounded to one decimal (within 0.05 of the difference, a multiple of 0.1);
\* a negative change implies improving and improving implies change <= 0;
\* rates [20.0, 5.0] give improving, -15.0.
C7_ChangeIsRoundedDifference ==
    /\ CheckTrend(Rat(20, 1), Rat(5, 1)) = [trend |-> "improving", change |-> -150]
    /\ (spc # "start" /\ Len(history) >= 2) =>
        \A c \in Range(CheckNames) :
            LET first == HighRate(WindowFirst(history), c)
                last  == HighRate(WindowLast(history), c)
                t     == trends.check_failure_trends[c]
                d     == t.change * (first.den * last.den)
                             - 10 * (last.num * first.den - first.num * last.den)
            IN  /\ t.trend = "improving" <=> RatLess(last, first)
                /\ t.trend = "degrading" <=> RatLess(first, last)
                /\ t.trend = "stable" <=> (~RatLess(last, first) /\ ~RatLess(first, last))
                /\ 2 * d <= first.den * last.den
                /\ -2 * d <= first.den * last.den
                /\ t.change < 0 => t.trend = "improving"
                /\ t.trend = "improving" => t.change <= 0

C7_Witness ==
    /\ spc = "trended"
    /\ Len(history) >= 2
    /\ trends.check_failure_trends["depth"] = [trend |-> "improving", change |-> -667]
    /\ trends.check_failure_trends["knee_tracking"].trend = "stable"

(***************************************************************************)
(* Properties of the orchestrator (Spec, SpecBackends).                    *)
(***************************************************************************)
ResultFields ==
    {"session_id", "timestamp", "rep_count", "current_session", "trends",
     "weak_areas", "consistency", "comparison", "recommendations"}

\* the call in flight ran both fetches and assembled a result
Analysed == apc = "done" /\ Len(fetches) = 2 /\ fetches[2].ok

\* C8: with fewer than 2 sessions in the fetched history the result is a
\* full result (no error) whose trends and comparison are the
\* "insufficient_data" placeholders, rep_trend being null; with 2 or more
\* sessions neither placeholder is returned.
C8_InsufficientHistory ==
    Analysed =>
        /\ DOMAIN result = ResultFields
        /\ Len(history) < 2 =>
               /\ DOMAIN result.trends = {"trend", "interpretation", "rep_trend"}
               /\ Get(result.trends, "trend", "None") = "insufficient_data"
               /\ Get(result.trends, "rep_trend", "null") = "None"
               /\ result.comparison = [comparison |-> "insufficient_data"]
        /\ Len(history) >= 2 =>
               /\ "trend" \notin DOMAIN result.trends
               /\ "comparison" \notin DOMAIN result.comparison
               /\ DOMAIN result.trends.check_failure_trends = Range(CheckNames)

C8_Witness ==
    /\ Analysed
    /\ Len(history) = 1
    /\ history[1] = session
    /\ result.trends.trend = "insufficient_data"
    /\ result.recommendations # <<>>

\* C10: the first query of a call is the current-session fetch and the
\* second the history fetch; when the first finds no session of that
\* (session_id, user_id) pair, also when the session_id exists under another
\* user, the call ends there with "Session not found" and no second query.
C10_NotFoundBeforeHistory ==
    [][/\ (apc = "idle" /\ apc' # "idle") =>
            /\ Len(fetches') = 1 /\ fetches'[1].query = "find_one"
            /\ (/\ fetches'[1].ok
                /\ ~\E i \in DOMAIN store : /\ store[i].session_id = args'[1]
                                            /\ store[i].user_id = args'[2])
               => (apc' = "done" /\ result' = SessionNotFound)
       /\ (apc = "await_history" /\ apc' # "await_history") =>
            /\ Len(fetches') = 2 /\ fetches'[2].query = "find"
            /\ fetches'[1] = fetches[1]
       /\ (apc' = "done" /\ result' = SessionNotFound) => Len(fetches') = 1
      ]_vars

C10_Witness ==
    /\ apc = "done"
    /\ result = SessionNotFound
    /\ fetches = <<Fetch("find_one", TRUE)>>
    /\ \E i \in DOMAIN store : store[i].session_id = args[1] /\ store[i].user_id # args[2]

\* C11: a finished analyze call holds either a complete Analysis Result
\* (all nine fields present) or a payload whose only field is error,
\* whatever the store held and whether each store call returned a value,
\* returned nothing or raised.
C11_ResultOrError ==
    apc = "done" =>
        \/ ResultFields \subseteq DOMAIN result
        \/ DOMAIN result = {"error"}

C11_Witness ==
    /\ apc = "done"
    /\ fetches = <<Fetch("find_one", TRUE), Fetch("find", FALSE)>>
    /\ session \in Range(store)
    /\ result = AnalysisFailed

\* C12: when a statement of a Snowflake analyze call fails, the call ends
\* with the AnalysisFailed error: not with "Session not found" and not with
\* a result assembled from the rows that did arrive.
C12_FailedFetchIsAnalysisFailed ==
    (apc = "done" /\ \E i \in DOMAIN fetches : ~fetches[i].ok) =>
        sf_result = AnalysisFailed

\* C13: the history window fetched by an analyze call holds at most 10
\* sessions and its element 0 is the session being analysed, whatever
\* inserts and deletes preceded or interleaved with the call.
C13_CurrentIsFirst ==
    Analysed =>
        /\ Len(history) <= HistoryLimit
        /\ Len(history) >= 1
        /\ history[1].session_id = args[1]

\* C14: the store never holds two session records with the same user_id
\* and the same session_id.
C14_OneRecordPerSession ==
    \A i, j \in DOMAIN store :
        (store[i].user_id = store[j].user_id /\ store[i].session_id = store[j].session_id)
            => i = j

\* the sessions of the fetched history other than the one analysed
OtherSessions == SelectSeq(history, LAMBDA d : d._id # session._id)

MeanInTenths(xs) == RoundHalfEven(10 * SumSeq(xs), Len(xs))

\* C20: with 2 or more history sessions, both historical averages of the
\* comparison are means over the user's sessions other than the one being
\* analysed, whichever session that is.
C20_AnalysedSessionExcluded ==
    (Analysed /\ Len(history) >= 2 /\ OtherSessions # <<>>) =>
        /\ Get(result.comparison, "rep_count", EmptyDict).historical_avg
               = MeanInTenths([i \in DOMAIN OtherSessions |-> OtherSessions[i].rep_count])
        /\ Get(result.comparison, "critical_issues", EmptyDict).historical_avg
               = MeanInTenths([i \in DOMAIN OtherSessions |-> HighCount(OtherSessions[i])])

\* C15: a step never changes a field of a record that stays in the store,
\* except that get_user_history may rewrite user_id, and then only from a
\* stored three-part JWT to the requesting user id that the JWT's sub
\* decodes to; a step of analyze leaves the whole store as it was.
C15_OnlyUserIdBackfilled ==
    [][/\ \A i \in DOMAIN store : \A j \in DOMAIN store' :
            store[i]._id = store'[j]._id =>
                /\ DOMAIN store'[j] = DOMAIN store[i]
                /\ \A f \in DOMAIN store[i] \ {"user_id"} : store'[j][f] = store[i][f]
                /\ store'[j].user_id # store[i].user_id =>
                       /\ response'.op = "get_user_history"
                       /\ ThreeParts(store[i].user_id)
                       /\ store'[j].user_id = ExtractUserId(store[i].user_id)
                       /\ store'[j].user_id = Get(response', "user_id", "None")
       /\ apc' # apc => store' = store
      ]_vars

C15_Witness ==
    /\ Get(response, "op", "None") = "get_user_history"
    /\ \E i \in DOMAIN store :
           /\ store[i]._id \in Get(response, "updated", {})
           /\ store[i].user_id = "u1"
    /\ apc = "await_history"

\* the walk of a key path as the normalizer is described: each step reads
\* the first of key, upper-case key, lower-case key that the mapping holds
RECURSIVE Walk(_, _)
Walk(value, keys) ==
    IF keys = <<>> THEN [found |-> TRUE, value |-> value]
    ELSE IF value.kind # "dict" THEN [found |-> FALSE, value |-> value]
    ELSE LET key   == Head(keys)
             forms == SelectSeq(<<key, Upper(key), Lower(key)>>,
                                LAMBDA k : k \in DOMAIN value.items)
         IN  IF forms = <<>> THEN [found |-> FALSE, value |-> value]
             ELSE Walk(value.items[forms[1]], Tail(keys))

\* C25: the normalizer returns the value its walk reaches, reading at each
\* step the key as given, else its upper-case form, else its lower-case
\* form; it returns the default when a step finds none of the three or
\* meets a value that is not a mapping.
C25_GetSafePriority ==
    spc = "resolved" =>
        LET w == Walk(session, args)
        IN  /\ ~w.found => result = Default
            /\ (w.found /\ w.value.kind # "none") => result = w.value
            /\ (w.found /\ w.value.kind = "none") => result \in {w.value, Default}

C25_Witness ==
    /\ spc = "resolved"
    /\ args = <<"Reps", "Reps">>
    /\ session.kind = "dict"
    /\ DOMAIN session.items = {"REPS", "reps"}
    /\ session.items["reps"] = InnerDict(Spellings)
    /\ session.items["REPS"] = InnerDict({"REPS", "reps"})
    /\ result = Scalar(2)

\* C27: in every successful Analysis Result the top-level rep_count equals
\* current_session.rep_count, the number of reps the summary was computed
\* over.
C27_RepCountsAgree ==
    (apc \in {"mongodb_done", "done"} /\ "current_session" \in DOMAIN result) =>
        result.rep_count = result.current_session.rep_count

\* the latest endpoint call was a delete_session answered {status: deleted}
Deleted == Get(response, "op", "None") = "delete_session" /\ response.status = 200

\* C28: once delete_session has answered {status: deleted} for a session_id
\* and user, and no coach_set has been called since, a lookup of that
\* (session_id, user_id) finds nothing: analyze_session's find_one has no
\* match, and no record get_user_history lists for the user has that
\* session_id.
C28_DeletedStaysGone ==
    Deleted =>
        /\ FindOneMatches(store, response.session_id, response.user_id) = {}
        /\ \A i \in DOMAIN store :
               store[i].user_id \in {response.user_id, response.token}
                   => store[i].session_id # response.session_id

\* a step of delete_session that changed the store or the response
DeleteStep ==
    /\ Get(response', "op", "None") = "delete_session"
    /\ (response' # response \/ store' # store)

\* the stored user_ids a delete request of user_id with bearer token may remove
Removable(doc, user_id, token) ==
    \/ doc.user_id \in {user_id, token}
    \/ ThreeParts(doc.user_id) /\ ExtractUserId(doc.user_id) = user_id

\* C29: delete_session answers 200, 401 or 404; answering 200 it removes
\* exactly one record, whose session_id is the requested one and whose
\* user_id is the resolved user id, the bearer token, or a JWT whose sub is
\* the resolved user id, and leaves every other record untouched; answering
\* 401 or 404 it leaves the store unchanged.
C29_DeleteRemovesOnlyOwnRecord ==
    [][DeleteStep =>
          /\ response'.status \in {200, 401, 404}
          /\ response'.status # 200 => store' = store
          /\ response'.status = 200 =>
                 \E i \in DOMAIN store :
                     /\ store' = RemoveAt(store, i)
                     /\ store[i].session_id = response'.session_id
                     /\ Removable(store[i], response'.user_id, response'.token)]_vars

C29_Witness ==
    /\ Deleted
    /\ next_id = 3
    /\ Len(store) = 1
    /\ store[1].session_id = response.session_id
    /\ ~Removable(store[1], response.user_id, response.token)

\* a step of coach_set that changed the store or the response
CoachSetStep ==
    /\ Get(response', "op", "None") = "coach_set"
    /\ (response' # response \/ store' # store)

\* C26: coach_set changes the store only by appending one record, and only
\* for a request whose Authorization header starts with "Bearer "; a
\* response with the coaching output has saved_to_db true exactly when the
\* call appended a record; a failed insert gives a 200 response with
\* saved_to_db false and an unchanged store.
C26_SavedIffInserted ==
    [][CoachSetStep =>
          /\ store' # store =>
                 /\ response'.mongodb_attempted
                 /\ Len(store') = Len(store) + 1
                 /\ SubSeq(store', 1, Len(store)) = store
          /\ ~response'.mongodb_attempted => store' = store
          /\ response'.status = 200 => (response'.saved_to_db <=> store' # store)
          /\ response'.error # "None" =>
                 /\ response'.status = 200
                 /\ ~response'.saved_to_db
                 /\ store' = store]_vars

C26_Witness ==
    /\ Get(response, "op", "None") = "coach_set"
    /\ response.status = 200
    /\ response.mongodb_attempted
    /\ response.error # "None"
    /\ ~response.saved_to_db
    /\ store = <<>>

\* the results call c can return when it runs alone over the store
AloneResults(c) ==
    LET session_id == args[c][1]
        user_id    == args[c][2]
        found      == FindOneMatches(store, session_id, user_id)
    IN  IF found = {} THEN {SessionNotFound}
        ELSE {AnalysisResult(session_id, store[i], hist, now) :
                  i \in found, hist \in FindRecent(store, user_id)}

\* C23: over an unchanging store, analyze calls for different sessions,
\* interleaved in any way at their two store fetches, each return a result
\* the call returns when run alone, and a step of one call changes nothing
\* that another call holds (its fetched session, its history, its result).
C23_ConcurrentCallsIndependent ==
    [][\A c \in Calls :
          /\ apc'[c] = "done" => result'[c] \in AloneResults(c)
          /\ apc'[c] = apc[c] =>
                 /\ session'[c] = session[c]
                 /\ history'[c] = history[c]
                 /\ result'[c] = result[c]]_vars

C23_Witness ==
    /\ Len(fetches) >= 4
    /\ SubSeq(fetches, 1, 4) = <<1, 2, 1, 2>>
    /\ \A c \in {1, 2} :
           /\ apc[c] = "done"
           /\ "current_session" \in DOMAIN result[c]
           /\ result[c].session_id = args[c][1]
    /\ result[1].current_session # result[2].current_session

\* C9: the same logical session and history, held as lower-case nested
\* documents and as upper-case rows, give the same current_session summary,
\* weak_areas, consistency, trends, comparison and recommendations.
C9_BackendsAgree ==
    (apc = "done" /\ sf_result # NotComputed) =>
        \A f \in {"current_session", "weak_areas", "consistency", "trends",
                  "comparison", "recommendations"} :
            f \in DOMAIN sf_result /\ f \in DOMAIN result /\ sf_result[f] = result[f]

====
